---- MODULE Spec2Model ----
(***************************************************************************)
(* A model of the Mermaid diagram editor of src/main.py: the classes Node, *)
(* Edge and DiagramEditor.  The state is the editor's fields; every        *)
(* handler bound to a canvas or widget event is one action.  Canvas items  *)
(* are modelled by the attributes the handlers set on them (the outline of *)
(* a node's shape, the coordinates of an edge's line, the place of the     *)
(* embedded Entry).                                                        *)
(***************************************************************************)
EXTENDS Integers, Sequences, FiniteSets, TLC

VARIABLES
    nodes,              \* self.nodes: the dict id -> Node, in insertion order
    edges,              \* self.edges: the list of Edge
    node_counter,       \* self.node_counter
    context_menu,       \* self.context_menu_x, self.context_menu_y (unset at start)
    current_edit_node,  \* self.current_edit_node: an index into nodes, 0 for None
    text_editor,        \* self.text_editor with self.editor_window_id
    palette_panel,      \* self.palette_panel is not None
    arrow_source,       \* self.arrow_source: an index into nodes, 0 for None
    dragging_node,      \* self.dragging_node: an index into nodes, 0 for None
    drag_offset_x,      \* self.drag_offset_x
    drag_offset_y,      \* self.drag_offset_y
    button_down,        \* mouse button 1 is held (between <Button-1> and <ButtonRelease-1>)
    last                \* the handler that ran last, with its arguments and its result

vars == <<nodes, edges, node_counter, context_menu, current_edit_node, text_editor,
          palette_panel, arrow_source, dragging_node, drag_offset_x, drag_offset_y,
          button_down, last>>

-----------------------------------------------------------------------------
(* Bounds of the model.                                                    *)

\* Nodes and edges created in the specifications of the pointer (Spec, SpecShape).
MaxNodes == 2
MaxEdges == 1
\* Nodes and edges created in the specification of the export (SpecExport).
MaxExportNodes == 2
MaxExportEdges == 2
\* Nodes created in the specification of the id generator (SpecIds).
MaxIds == 28
\* Nodes created in the specification of the colour classes (SpecColor).
MaxColorNodes == 3
\* SpecConnect: the connection mode.
MaxConnectNodes == 2
MaxConnectEdges == 3
\* SpecMode: the connection mode among all the handlers.
MaxModeNodes == 2
MaxModeEdges == 1
\* SpecDrag: presses and drags in the plane.
MaxDragNodes == 2
MaxDragEdges == 1
\* SpecEdit: the edit session and its Entry.
MaxEditNodes == 2
MaxEditEdges == 1

-----------------------------------------------------------------------------
(* Python's str, chr and str.lower on the characters the program uses.     *)

Upper == <<"A","B","C","D","E","F","G","H","I","J","K","L","M",
           "N","O","P","Q","R","S","T","U","V","W","X","Y","Z">>

Lower == <<"a","b","c","d","e","f","g","h","i","j","k","l","m",
           "n","o","p","q","r","s","t","u","v","w","x","y","z">>

Digit == <<"0","1","2","3","4","5","6","7","8","9">>

\* chr(k) for the code points 65..90 that get_new_node_id asks for.
chr(k) == Upper[k - 64]

\* str(n) for a natural number n: its decimal digits.
RECURSIVE str(_)
str(n) == IF n < 10 THEN Digit[n + 1] ELSE str(n \div 10) \o Digit[(n % 10) + 1]

\* One character of s.lower().
lower_char(c) ==
    IF \E i \in 1..26 : Upper[i] = c
    THEN Lower[CHOOSE i \in 1..26 : Upper[i] = c]
    ELSE c

\* The string itself, where s.lower() is meant.
lower_keeps_case(s) == s

\* s.lower() for a string held as the sequence of its characters.
lower(s) == [i \in 1..Len(s) |-> lower_char(s[i])]

\* The string whose characters are the sequence s.
RECURSIVE chars_to_str(_)
chars_to_str(s) == IF s = <<>> THEN "" ELSE s[1] \o chars_to_str(Tail(s))

\* sep.join(parts) for a sequence of strings.
RECURSIVE join(_, _)
join(sep, parts) ==
    IF parts = <<>> THEN ""
    ELSE IF Len(parts) = 1 THEN parts[1]
    ELSE parts[1] \o sep \o join(sep, Tail(parts))

-----------------------------------------------------------------------------
(* Colours, held as sequences of characters so that lower() acts on them.  *)

WHITE == <<"#","F","F","F","F","F","F">>
RED == <<"#","F","F","0","0","0","0">>
YELLOW == <<"#","F","F","F","F","0","0">>
DODGER == <<"#","1","E","9","0","F","F">>
dodger == <<"#","1","e","9","0","f","f">>
CUSTOM == <<"#","1","2","3","4","5","6">>

\* The colours of the palette's buttons (show_palette_panel) that the model uses.
colors == {RED, YELLOW}

\* The table of predefined colours of get_mermaid_code: key, class name.
predefined == <<
    [key |-> <<"#","1","e","9","0","f","f">>, name |-> "blue"],
    [key |-> <<"#","f","f","4","5","0","0">>, name |-> "red"],
    [key |-> <<"#","3","2","c","d","3","2">>, name |-> "green"],
    [key |-> <<"#","f","f","f","f","0","0">>, name |-> "yellow"],
    [key |-> <<"#","f","f","a","5","0","0">>, name |-> "orange"] >>

-----------------------------------------------------------------------------
(* class Node                                                              *)

\* An attribute that __init__ never set: reading it raises AttributeError.
NoAttr == -1

\* Node.__init__ and Node.draw: width and height are set for the two known
\* shapes only, and only these draw a canvas item (with a black outline).
Node(node_id, x, y, text, shape, fill) ==
    [id |-> node_id, x |-> x, y |-> y, text |-> text, shape |-> shape, fill |-> fill,
     width |-> IF shape \in {"rectangle", "diamond"} THEN 100 ELSE NoAttr,
     height |-> IF shape = "rectangle" THEN 50
                ELSE IF shape = "diamond" THEN 60 ELSE NoAttr,
     outline |-> IF shape \in {"rectangle", "diamond"} THEN "black" ELSE "none"]

\* Node.update_position moving the node along x alone.
update_position_x_only(node, new_x, new_y) == [node EXCEPT !.x = new_x]

\* Node.update_position.
update_position(node, new_x, new_y) == [node EXCEPT !.x = new_x, !.y = new_y]

\* Node.update_text leaving the text as it is.
update_text_ignored(node, new_text) == node

\* Node.update_text.
update_text(node, new_text) == [node EXCEPT !.text = new_text]

\* Node.update_color.
update_color(node, new_color) == [node EXCEPT !.fill = new_color]

\* Node.highlight.
highlight(node, flag) == [node EXCEPT !.outline = IF flag THEN "red" ELSE "black"]

\* Node.contains_point raises AttributeError: the chained comparison
\* self.x <= x <= self.x + self.width reads self.width only when self.x <= x.
contains_point_raises(node, x, y) == node.width = NoAttr /\ node.x <= x

\* Node.contains_point, when it does not raise.
contains_point(node, x, y) ==
    /\ node.x <= x /\ x <= node.x + node.width
    /\ node.y <= y /\ y <= node.y + node.height

\* Node.get_center: width/2 and height/2 are whole for the sizes __init__ sets.
get_center(node) == <<node.x + node.width \div 2, node.y + node.height \div 2>>

-----------------------------------------------------------------------------
(* class Edge                                                              *)

\* Edge.__init__ and Edge.draw: source and target are indices into nodes;
\* line is the coordinates of the canvas line.
Edge(ns, source, target, label) ==
    [source |-> source, target |-> target, label |-> label,
     line |-> get_center(ns[source]) \o get_center(ns[target])]

\* Edge.update_position.
edge_update_position(ns, edge) ==
    [edge EXCEPT !.line = get_center(ns[edge.source]) \o get_center(ns[edge.target])]

-----------------------------------------------------------------------------
(* class DiagramEditor: helpers                                            *)

\* The handler that ran last: its name, the pointer position it was given,
\* its other argument, and the text it returned.
Ev(op, x, y, arg, out) == [op |-> op, x |-> x, y |-> y, arg |-> arg, out |-> out]

\* self.text_editor is None.  Otherwise: content is the Entry's text, node the
\* node its <KeyRelease> binding holds (0 before the bindings are made), and
\* placed, wx, wy the canvas window that embeds it (self.editor_window_id).
NoEditor == [exists |-> FALSE, content |-> "", node |-> 0,
             placed |-> FALSE, wx |-> 0, wy |-> 0]

\* get_new_node_id numbering the ids after Z from the count of nodes made,
\* the new one included.
get_new_node_id_counts_from_one ==
    [node_id |-> IF node_counter < 26 THEN chr(65 + node_counter)
                 ELSE "N" \o str(node_counter + 1),
     node_counter |-> node_counter + 1]

\* get_new_node_id going round the alphabet again after Z.
get_new_node_id_wraps ==
    [node_id |-> chr(65 + (node_counter % 26)),
     node_counter |-> node_counter + 1]

\* get_new_node_id: the id returned and the counter it leaves.
get_new_node_id ==
    [node_id |-> IF node_counter < 26 THEN chr(65 + node_counter)
                 ELSE "N" \o str(node_counter),
     node_counter |-> node_counter + 1]

\* self.nodes[node_id] = new_node: a new key is appended, a known key keeps
\* its place in the dict and gets the new value.
dict_set(ns, node) ==
    IF \E i \in 1..Len(ns) : ns[i].id = node.id
    THEN [ns EXCEPT ![CHOOSE i \in 1..Len(ns) : ns[i].id = node.id] = node]
    ELSE Append(ns, node)

\* The place of key node_id in the dict.
dict_index(ns, node_id) == CHOOSE i \in 1..Len(ns) : ns[i].id = node_id

\* get_node_at raised AttributeError (in contains_point).
Raised == -1

\* get_node_at: the first node in dict order that contains the point, 0 for None.
RECURSIVE get_node_at_from(_, _, _)
get_node_at_from(i, x, y) ==
    IF i > Len(nodes) THEN 0
    ELSE IF contains_point_raises(nodes[i], x, y) THEN Raised
    ELSE IF contains_point(nodes[i], x, y) THEN i
    ELSE get_node_at_from(i + 1, x, y)

\* get_node_at returning the last node, in dict order, that contains the point.
get_node_at_last(x, y) ==
    LET hits == {i \in 1..Len(nodes) : contains_point(nodes[i], x, y)}
    IN  IF hits = {} THEN 0 ELSE CHOOSE i \in hits : \A j \in hits : j <= i

get_node_at(x, y) == get_node_at_from(1, x, y)

\* start_editing_node without its first two lines: the session of another
\* node is not closed, so its Entry is found and kept.
start_editing_node_keeps_entry(ns, n) ==
    IF text_editor.exists
    THEN [nodes |-> ns, current_edit_node |-> n, text_editor |-> text_editor,
          palette_panel |-> palette_panel, arrow_source |-> arrow_source]
    ELSE [nodes |-> IF arrow_source # 0
                    THEN [ns EXCEPT ![arrow_source] = highlight(ns[arrow_source], FALSE)]
                    ELSE ns,
          current_edit_node |-> n,
          text_editor |-> [exists |-> TRUE, content |-> ns[n].text, node |-> n,
                           placed |-> TRUE, wx |-> get_center(ns[n])[1],
                           wy |-> get_center(ns[n])[2]],
          palette_panel |-> TRUE, arrow_source |-> 0]

\* start_editing_node without its last three lines: the connection source
\* stays as it is.
start_editing_node_keeps_source(ns, n) ==
    LET closes == current_edit_node # 0 /\ current_edit_node # n
        te == IF closes THEN NoEditor ELSE text_editor
    IN  IF te.exists
        THEN [nodes |-> ns, current_edit_node |-> n, text_editor |-> te,
              palette_panel |-> palette_panel, arrow_source |-> arrow_source]
        ELSE [nodes |-> ns, current_edit_node |-> n,
              text_editor |-> [exists |-> TRUE, content |-> ns[n].text, node |-> n,
                               placed |-> TRUE, wx |-> get_center(ns[n])[1],
                               wy |-> get_center(ns[n])[2]],
              palette_panel |-> TRUE, arrow_source |-> arrow_source]

\* start_editing_node(node), called with the dict ns: the fields it leaves.
\* It ends early when an Entry is still there, and with AttributeError in
\* node.get_center() (after the Entry was made, before it is placed and
\* bound) for a node without width.
start_editing_node(ns, n) ==
    LET closes == current_edit_node # 0 /\ current_edit_node # n
        te == IF closes THEN NoEditor ELSE text_editor
        pal == IF closes THEN FALSE ELSE palette_panel
        c == get_center(ns[n])
    IN  IF te.exists
        THEN [nodes |-> ns, current_edit_node |-> n, text_editor |-> te,
              palette_panel |-> pal, arrow_source |-> arrow_source]
        ELSE IF ns[n].width = NoAttr
        THEN [nodes |-> ns, current_edit_node |-> n,
              text_editor |-> [exists |-> TRUE, content |-> ns[n].text, node |-> 0,
                               placed |-> FALSE, wx |-> 0, wy |-> 0],
              palette_panel |-> pal, arrow_source |-> arrow_source]
        ELSE [nodes |-> IF arrow_source # 0
                        THEN [ns EXCEPT ![arrow_source] = highlight(ns[arrow_source], FALSE)]
                        ELSE ns,
              current_edit_node |-> n,
              text_editor |-> [exists |-> TRUE, content |-> ns[n].text, node |-> n,
                               placed |-> TRUE, wx |-> c[1], wy |-> c[2]],
              palette_panel |-> TRUE, arrow_source |-> 0]

\* stop_editing leaving the Entry, the palette and the current node alone.
stop_editing_keeps_session ==
    UNCHANGED <<text_editor, palette_panel, current_edit_node>>

\* stop_editing: remove_text_editor, hide_palette_panel, no current node.
stop_editing ==
    /\ text_editor' = NoEditor
    /\ palette_panel' = FALSE
    /\ current_edit_node' = 0

\* The test of on_left_click in connection mode without its second half.
connects_any(node) == node # 0

\* The test of on_left_click in connection mode: the click makes an edge.
connects(node) == node # 0 /\ node # arrow_source

\* The connection branch of on_left_click ending connection mode whenever
\* the press hit a node, the source included.
connection_click_consumes(node) ==
    IF connects(node)
    THEN [edges |-> Append(edges, Edge(nodes, arrow_source, node, "")),
          nodes |-> [nodes EXCEPT ![arrow_source] = highlight(nodes[arrow_source], FALSE)],
          arrow_source |-> 0]
    ELSE IF node # 0
    THEN [edges |-> edges,
          nodes |-> [nodes EXCEPT ![arrow_source] = highlight(nodes[arrow_source], FALSE)],
          arrow_source |-> 0]
    ELSE [edges |-> edges, nodes |-> nodes, arrow_source |-> arrow_source]

\* The connection branch of on_left_click leaving the source highlighted
\* when it makes the edge.
connection_click_keeps_highlight(node) ==
    IF connects(node)
    THEN [edges |-> Append(edges, Edge(nodes, arrow_source, node, "")),
          nodes |-> nodes,
          arrow_source |-> 0]
    ELSE [edges |-> edges, nodes |-> nodes, arrow_source |-> arrow_source]

\* The connection branch of on_left_click giving up the connection when the
\* press hit no node.
connection_click_cancels_on_miss(node) ==
    IF connects(node)
    THEN [edges |-> Append(edges, Edge(nodes, arrow_source, node, "")),
          nodes |-> [nodes EXCEPT ![arrow_source] = highlight(nodes[arrow_source], FALSE)],
          arrow_source |-> 0]
    ELSE IF node = 0
    THEN [edges |-> edges,
          nodes |-> [nodes EXCEPT ![arrow_source] = highlight(nodes[arrow_source], FALSE)],
          arrow_source |-> 0]
    ELSE [edges |-> edges, nodes |-> nodes, arrow_source |-> arrow_source]

\* The connection branch of on_left_click (arrow_source is set): what it
\* leaves of edges, nodes and arrow_source when the press hit node (0: none).
connection_click(node) ==
    IF connects(node)
    THEN [edges |-> Append(edges, Edge(nodes, arrow_source, node, "")),
          nodes |-> [nodes EXCEPT ![arrow_source] = highlight(nodes[arrow_source], FALSE)],
          arrow_source |-> 0]
    ELSE [edges |-> edges, nodes |-> nodes, arrow_source |-> arrow_source]

\* The loop of on_drag looking at the source of each edge alone.
on_drag_edges_source_only(ns, d) ==
    [i \in 1..Len(edges) |->
        IF edges[i].source = d
        THEN edge_update_position(ns, edges[i])
        ELSE edges[i]]

\* The loop of on_drag over self.edges, with node d moved in ns.
on_drag_edges(ns, d) ==
    [i \in 1..Len(edges) |->
        IF edges[i].source = d \/ edges[i].target = d
        THEN edge_update_position(ns, edges[i])
        ELSE edges[i]]

-----------------------------------------------------------------------------
(* class DiagramEditor: get_mermaid_code                                   *)

\* A dict local to get_mermaid_code, in insertion order: entries [key, val].
has_key(d, k) == \E i \in 1..Len(d) : d[i].key = k

get_item(d, k) == d[CHOOSE i \in 1..Len(d) : d[i].key = k].val

set_item(d, k, v) ==
    IF has_key(d, k)
    THEN [d EXCEPT ![CHOOSE i \in 1..Len(d) : d[i].key = k] = [key |-> k, val |-> v]]
    ELSE Append(d, [key |-> k, val |-> v])

\* The line of one node with brackets for every shape.
node_line_brackets(node) == "    " \o node.id \o "[" \o node.text \o "];"

\* The line of one node (the first loop of get_mermaid_code).
node_line(node) ==
    IF node.shape = "rectangle"
    THEN "    " \o node.id \o "[" \o node.text \o "];"
    ELSE IF node.shape = "diamond"
    THEN "    " \o node.id \o "{" \o node.text \o "};"
    ELSE "    " \o node.id \o "[" \o node.text \o "];"

\* The line of one edge (the second loop).
edge_line(edge) ==
    IF edge.label # ""
    THEN "    " \o nodes[edge.source].id \o " -- " \o edge.label \o " --> "
                \o nodes[edge.target].id \o ";"
    ELSE "    " \o nodes[edge.source].id \o " --> " \o nodes[edge.target].id \o ";"

\* The class name of a colour, numbering the colours that are not
\* predefined among themselves.
class_name_of_counts_own(cc, color) ==
    IF has_key(predefined, color)
    THEN predefined[CHOOSE i \in 1..Len(predefined) : predefined[i].key = color].name
    ELSE IF ~has_key(cc, color)
    THEN "color" \o str(Cardinality({i \in 1..Len(cc) : ~has_key(predefined, cc[i].key)}) + 1)
    ELSE get_item(cc, color)

\* The class name the third loop gives the colour of one node, with the
\* dict color_classes as the nodes before it left it.
class_name_of(cc, color) ==
    IF has_key(predefined, color)
    THEN predefined[CHOOSE i \in 1..Len(predefined) : predefined[i].key = color].name
    ELSE IF ~has_key(cc, color)
    THEN "color" \o str(Len(cc) + 1)
    ELSE get_item(cc, color)

\* The third loop: color_classes after the nodes from the i-th on.
RECURSIVE color_classes_from(_, _)
color_classes_from(cc, i) ==
    IF i > Len(nodes) THEN cc
    ELSE LET color == lower(nodes[i].fill)
         IN  color_classes_from(set_item(cc, color, class_name_of(cc, color)), i + 1)

color_classes == color_classes_from(<<>>, 1)

\* The fifth loop: groups after the nodes from the i-th on.
RECURSIVE groups_from(_, _)
groups_from(g, i) ==
    IF i > Len(nodes) THEN g
    ELSE LET class_name == get_item(color_classes, lower(nodes[i].fill))
             ids == IF has_key(g, class_name) THEN get_item(g, class_name) ELSE <<>>
         IN  groups_from(set_item(g, class_name, Append(ids, nodes[i].id)), i + 1)

groups == groups_from(<<>>, 1)

\* One classDef line (the fourth loop) and one class line (the sixth).
classdef_line(e) ==
    "    classDef " \o e.val \o " fill:" \o chars_to_str(e.key)
        \o ",stroke:#000,stroke-width:2px;"

class_line(e) == "    class " \o join(",", e.val) \o " " \o e.key \o ";"

\* The code fence of three backquotes: a TLA+ string cannot hold a backquote,
\* so three apostrophes stand for it.
FENCE == "'''"

\* The list lines of get_mermaid_code.
mermaid_lines ==
    <<FENCE \o "mermaid", "graph TD;">>
    \o [i \in 1..Len(nodes) |-> node_line(nodes[i])]
    \o [i \in 1..Len(edges) |-> edge_line(edges[i])]
    \o [i \in 1..Len(color_classes) |-> classdef_line(color_classes[i])]
    \o [i \in 1..Len(groups) |-> class_line(groups[i])]
    \o <<FENCE>>

\* get_mermaid_code with lines kept from one call to the next (an attribute
\* instead of a local list).
get_mermaid_code_keeps_lines ==
    IF last.op \in {"generate_mermaid", "copy_mermaid_to_clipboard"}
    THEN last.out \o "\n" \o join("\n", mermaid_lines)
    ELSE join("\n", mermaid_lines)

\* get_mermaid_code: the lines, joined.
get_mermaid_code == join("\n", mermaid_lines)

-----------------------------------------------------------------------------
(* class DiagramEditor: the state after __init__ and the handlers          *)

Init ==
    /\ nodes = <<>>
    /\ edges = <<>>
    /\ node_counter = 0
    /\ context_menu = [set |-> FALSE, x |-> 0, y |-> 0]
    /\ current_edit_node = 0
    /\ text_editor = NoEditor
    /\ palette_panel = FALSE
    /\ arrow_source = 0
    /\ dragging_node = 0
    /\ drag_offset_x = 0
    /\ drag_offset_y = 0
    /\ button_down = FALSE
    /\ last = Ev("__init__", 0, 0, "", "")

\* on_right_click: <Button-3> on the canvas posts the context menu.
on_right_click(x, y) ==
    /\ context_menu' = [set |-> TRUE, x |-> x, y |-> y]
    /\ last' = Ev("on_right_click", x, y, "", "")
    /\ UNCHANGED <<nodes, edges, node_counter, current_edit_node, text_editor,
                   palette_panel, arrow_source, dragging_node, drag_offset_x,
                   drag_offset_y, button_down>>

\* create_node_at: a command of the context menu, which on_right_click posted.
create_node_at(shape) ==
    /\ context_menu.set
    /\ LET r == get_new_node_id
           new_node == Node(r.node_id, context_menu.x, context_menu.y, "Node", shape, WHITE)
           ns == dict_set(nodes, new_node)
           s == start_editing_node(ns, dict_index(ns, r.node_id))
       IN  /\ node_counter' = r.node_counter
           /\ nodes' = s.nodes
           /\ current_edit_node' = s.current_edit_node
           /\ text_editor' = s.text_editor
           /\ palette_panel' = s.palette_panel
           /\ arrow_source' = s.arrow_source
    /\ last' = Ev("create_node_at", context_menu.x, context_menu.y, shape, "")
    /\ UNCHANGED <<edges, context_menu, dragging_node, drag_offset_x, drag_offset_y,
                   button_down>>

\* on_left_click: <Button-1> on the canvas.  When get_node_at raises, the
\* handler ends there and has changed nothing.
on_left_click(x, y) ==
    /\ ~button_down
    /\ button_down' = TRUE
    /\ last' = Ev("on_left_click", x, y, "", "")
    /\ LET node == get_node_at(x, y)
       IN  IF node = Raised
           THEN UNCHANGED <<nodes, edges, current_edit_node, text_editor, palette_panel,
                            arrow_source, dragging_node, drag_offset_x, drag_offset_y>>
           ELSE IF arrow_source # 0
           THEN LET c == connection_click(node)
                IN  /\ edges' = c.edges
                    /\ nodes' = c.nodes
                    /\ arrow_source' = c.arrow_source
                    /\ UNCHANGED <<current_edit_node, text_editor, palette_panel,
                                   dragging_node, drag_offset_x, drag_offset_y>>
           ELSE IF node # 0
           THEN LET s == start_editing_node(nodes, node)
                IN  /\ nodes' = s.nodes
                    /\ current_edit_node' = s.current_edit_node
                    /\ text_editor' = s.text_editor
                    /\ palette_panel' = s.palette_panel
                    /\ arrow_source' = s.arrow_source
                    /\ dragging_node' = node
                    /\ drag_offset_x' = x - nodes[node].x
                    /\ drag_offset_y' = y - nodes[node].y
                    /\ UNCHANGED edges
           ELSE /\ stop_editing
                /\ UNCHANGED <<nodes, edges, arrow_source, dragging_node,
                               drag_offset_x, drag_offset_y>>
    /\ UNCHANGED <<node_counter, context_menu>>

\* on_double_click: <Double-Button-1> on the canvas, the second press of a
\* double click (Tk runs this binding alone for it, being the more specific).
on_double_click(x, y) ==
    /\ ~button_down
    /\ button_down' = TRUE
    /\ last' = Ev("on_double_click", x, y, "", "")
    /\ LET node == get_node_at(x, y)
       IN  IF node # Raised /\ node # 0
           THEN /\ stop_editing
                /\ arrow_source' = node
                /\ nodes' = [nodes EXCEPT ![node] = highlight(nodes[node], TRUE)]
           ELSE UNCHANGED <<nodes, current_edit_node, text_editor, palette_panel,
                            arrow_source>>
    /\ UNCHANGED <<edges, node_counter, context_menu, dragging_node, drag_offset_x,
                   drag_offset_y>>

\* on_drag: <B1-Motion> on the canvas, a pointer move with button 1 held.
on_drag(x, y) ==
    /\ button_down
    /\ last' = Ev("on_drag", x, y, "", "")
    /\ IF dragging_node # 0
       THEN LET d == dragging_node
                ns == [nodes EXCEPT ![d] = update_position(nodes[d], x - drag_offset_x,
                                                           y - drag_offset_y)]
                c == get_center(ns[d])
            IN  /\ nodes' = ns
                /\ text_editor' = IF current_edit_node = d /\ text_editor.exists
                                  THEN [text_editor EXCEPT !.wx = c[1], !.wy = c[2]]
                                  ELSE text_editor
                /\ edges' = on_drag_edges(ns, d)
       ELSE UNCHANGED <<nodes, text_editor, edges>>
    /\ UNCHANGED <<node_counter, context_menu, current_edit_node, palette_panel,
                   arrow_source, dragging_node, drag_offset_x, drag_offset_y,
                   button_down>>

\* on_release: <ButtonRelease-1> on the canvas.
on_release ==
    /\ button_down
    /\ button_down' = FALSE
    /\ dragging_node' = 0
    /\ last' = Ev("on_release", 0, 0, "", "")
    /\ UNCHANGED <<nodes, edges, node_counter, context_menu, current_edit_node,
                   text_editor, palette_panel, arrow_source, drag_offset_x,
                   drag_offset_y>>

\* The user types in the Entry that start_editing_node embedded in the
\* canvas: the widget's text becomes new_value (before <KeyRelease>).
entry_insert(new_value) ==
    /\ text_editor.exists /\ text_editor.placed
    /\ text_editor' = [text_editor EXCEPT !.content = new_value]
    /\ last' = Ev("entry_insert", 0, 0, new_value, "")
    /\ UNCHANGED <<nodes, edges, node_counter, context_menu, current_edit_node,
                   palette_panel, arrow_source, dragging_node, drag_offset_x,
                   drag_offset_y, button_down>>

\* The <KeyRelease> binding of the Entry: node.update_text(self.text_editor.get())
\* for the node that start_editing_node was called with when it made the Entry.
on_key_release ==
    /\ text_editor.exists /\ text_editor.node # 0
    /\ nodes' = [nodes EXCEPT ![text_editor.node] =
                     update_text(nodes[text_editor.node], text_editor.content)]
    /\ last' = Ev("on_key_release", 0, 0, text_editor.content, "")
    /\ UNCHANGED <<edges, node_counter, context_menu, current_edit_node, text_editor,
                   palette_panel, arrow_source, dragging_node, drag_offset_x,
                   drag_offset_y, button_down>>

\* finish_editing: the <Return> and <FocusOut> bindings of the Entry.
finish_editing ==
    /\ text_editor.exists /\ text_editor.node # 0
    /\ nodes' = IF current_edit_node # 0 /\ text_editor.exists
                THEN [nodes EXCEPT ![current_edit_node] =
                          update_text(nodes[current_edit_node], text_editor.content)]
                ELSE nodes
    /\ text_editor' = NoEditor
    /\ palette_panel' = FALSE
    /\ current_edit_node' = 0
    /\ last' = Ev("finish_editing", 0, 0, "", "")
    /\ UNCHANGED <<edges, node_counter, context_menu, arrow_source, dragging_node,
                   drag_offset_x, drag_offset_y, button_down>>

\* change_color: a button of the palette panel, which show_palette_panel made.
change_color(new_color) ==
    /\ palette_panel
    /\ nodes' = IF current_edit_node # 0
                THEN [nodes EXCEPT ![current_edit_node] =
                          update_color(nodes[current_edit_node], new_color)]
                ELSE nodes
    /\ last' = Ev("change_color", 0, 0, chars_to_str(new_color), "")
    /\ UNCHANGED <<edges, node_counter, context_menu, current_edit_node, text_editor,
                   palette_panel, arrow_source, dragging_node, drag_offset_x,
                   drag_offset_y, button_down>>

\* generate_mermaid: the button "Show Code" shows get_mermaid_code() in a window.
generate_mermaid ==
    /\ last' = Ev("generate_mermaid", 0, 0, "", get_mermaid_code)
    /\ UNCHANGED <<nodes, edges, node_counter, context_menu, current_edit_node,
                   text_editor, palette_panel, arrow_source, dragging_node,
                   drag_offset_x, drag_offset_y, button_down>>

\* copy_mermaid_to_clipboard: the button "Copy Code" copies get_mermaid_code().
copy_mermaid_to_clipboard ==
    /\ last' = Ev("copy_mermaid_to_clipboard", 0, 0, "", get_mermaid_code)
    /\ UNCHANGED <<nodes, edges, node_counter, context_menu, current_edit_node,
                   text_editor, palette_panel, arrow_source, dragging_node,
                   drag_offset_x, drag_offset_y, button_down>>

-----------------------------------------------------------------------------
(* The inputs of the handlers and the specifications                       *)

\* Pointer positions (event.x, event.y) in Spec: a node at (0,0) holds (0,0)
\* and, on its right edge, (100,0).
Xs == {0, 100}
Ys == {0}

\* The shapes of the context menu's two commands.
Shapes == {"rectangle", "diamond"}

\* What the user types into the Entry.
TextInputs == {"X"}

\* The pointer and the edit session: the handlers of the canvas bindings,
\* the context menu and the Entry's <Return>/<FocusOut>, on a diagram of at
\* most MaxNodes nodes and MaxEdges edges.
Next ==
    \/ \E x \in Xs, y \in Ys : on_right_click(x, y)
    \/ (Len(nodes) < MaxNodes /\ \E shape \in Shapes : create_node_at(shape))
    \/ \E x \in Xs, y \in Ys :
          (arrow_source = 0 \/ Len(edges) < MaxEdges) /\ on_left_click(x, y)
    \/ \E x \in Xs, y \in Ys : on_double_click(x, y)
    \/ \E x \in Xs, y \in Ys : on_drag(x, y)
    \/ on_release
    \/ finish_editing

Spec == Init /\ [][Next]_vars

\* The id generator: creation requests at one place, up to MaxIds nodes,
\* with presses there (on the first node), releases and commits of the edit
\* session between them.
NextIds ==
    \/ on_right_click(0, 0)
    \/ (Len(nodes) < MaxIds /\ create_node_at("rectangle"))
    \/ on_left_click(0, 0)
    \/ on_release
    \/ finish_editing

SpecIds == Init /\ [][NextIds]_vars

\* The colour classes of the export: up to MaxColorNodes nodes, each given
\* its colour while its edit session is open.  change_color takes any
\* colour string; ColorInputs holds two of the palette (one of them
\* predefined in get_mermaid_code) and three others.
ColorInputs == colors \cup {DODGER, dodger, CUSTOM}

NextColor ==
    \/ on_right_click(0, 0)
    \/ (Len(nodes) < MaxColorNodes /\ create_node_at("rectangle"))
    \/ \E c \in ColorInputs : change_color(c)
    \/ generate_mermaid

SpecColor == Init /\ [][NextColor]_vars

\* The export among the handlers that make what it prints (nodes, their
\* texts, edges) and that open and close the edit session, the drag and the
\* connection mode; the pointer positions (0,0) and (150,0) tell two nodes
\* apart.
ExportXs == {0, 150}

NextExport ==
    \/ \E x \in ExportXs : on_right_click(x, 0)
    \/ (Len(nodes) < MaxExportNodes /\ \E shape \in Shapes : create_node_at(shape))
    \/ \E x \in ExportXs :
          (arrow_source = 0 \/ Len(edges) < MaxExportEdges) /\ on_left_click(x, 0)
    \/ \E x \in ExportXs : on_double_click(x, 0)
    \/ on_release
    \/ \E v \in TextInputs : entry_insert(v)
    \/ on_key_release
    \/ finish_editing
    \/ generate_mermaid
    \/ copy_mermaid_to_clipboard

SpecExport == Init /\ [][NextExport]_vars

\* The pointer and the edit session, with a creation request whose shape is
\* none of the two that Node.__init__ knows.
NextShape ==
    \/ Next
    \/ (Len(nodes) < MaxNodes /\ create_node_at("circle"))

SpecShape == Init /\ [][NextShape]_vars

\* The connection mode: presses and double clicks at (0,0) and (150,0) on
\* nodes created there, with the edit sessions that creations and presses
\* open, up to MaxConnectEdges edges.
NextConnect ==
    \/ \E x \in ExportXs : on_right_click(x, 0)
    \/ (Len(nodes) < MaxConnectNodes /\ \E shape \in Shapes : create_node_at(shape))
    \/ \E x \in ExportXs :
          (arrow_source = 0 \/ Len(edges) < MaxConnectEdges) /\ on_left_click(x, 0)
    \/ \E x \in ExportXs : on_double_click(x, 0)
    \/ on_release
    \/ finish_editing

SpecConnect == Init /\ [][NextConnect]_vars

\* The connection mode among all the handlers: the canvas bindings, the
\* context menu, the Entry's <Return>/<FocusOut>, the palette's button Red
\* and the button "Show Code".
NextMode ==
    \/ \E x \in ExportXs : on_right_click(x, 0)
    \/ (Len(nodes) < MaxModeNodes /\ \E shape \in Shapes : create_node_at(shape))
    \/ \E x \in ExportXs :
          (arrow_source = 0 \/ Len(edges) < MaxModeEdges) /\ on_left_click(x, 0)
    \/ \E x \in ExportXs : on_double_click(x, 0)
    \/ \E x \in ExportXs : on_drag(x, 0)
    \/ on_release
    \/ finish_editing
    \/ change_color(RED)
    \/ generate_mermaid

SpecMode == Init /\ [][NextMode]_vars

\* Presses and drags in the plane: a rectangle at (0,0) holds (0,0) and
\* (100,0), a diamond there also (0,60) and (100,60), the corners of its box.
DragXs == {0, 100}
DragYs == {0, 60}

NextDrag ==
    \/ \E x \in DragXs, y \in DragYs : on_right_click(x, y)
    \/ (Len(nodes) < MaxDragNodes /\ \E shape \in Shapes : create_node_at(shape))
    \/ \E x \in DragXs, y \in DragYs :
          (arrow_source = 0 \/ Len(edges) < MaxDragEdges) /\ on_left_click(x, y)
    \/ \E x \in DragXs, y \in DragYs : on_double_click(x, y)
    \/ \E x \in DragXs, y \in DragYs : on_drag(x, y)
    \/ on_release
    \/ finish_editing

SpecDrag == Init /\ [][NextDrag]_vars

\* The edit session and its Entry: what the user types, the <KeyRelease>,
\* <Return> and <FocusOut> bindings, and the handlers that open, move and
\* close the session.
EditTexts == {"X", "Y"}

NextEdit ==
    \/ \E x \in ExportXs : on_right_click(x, 0)
    \/ (Len(nodes) < MaxEditNodes /\ \E shape \in Shapes : create_node_at(shape))
    \/ \E x \in ExportXs :
          (arrow_source = 0 \/ Len(edges) < MaxEditEdges) /\ on_left_click(x, 0)
    \/ \E x \in ExportXs : on_double_click(x, 0)
    \/ on_release
    \/ \E v \in EditTexts : entry_insert(v)
    \/ on_key_release
    \/ finish_editing

SpecEdit == Init /\ [][NextEdit]_vars

-----------------------------------------------------------------------------
(* The id generator (SpecIds)                                              *)

C2_IdsUnique ==
    /\ \A i, j \in 1..Len(nodes) : i # j => nodes[i].id # nodes[j].id
    /\ Len(nodes) = node_counter

\* A node was created after the alphabet ran out: 27 nodes, the 14th of
\* them with the id N.
C2_Witness ==
    /\ last.op = "create_node_at" /\ Len(nodes) = 27
    /\ nodes[14].id = "N" /\ nodes[27].id # "N"

-----------------------------------------------------------------------------
(* Edges and the pointer (Spec)                                            *)

\* C3: no edge has its source for its target, whatever the events were, and
\* a press on the connection source itself, in connection mode, leaves the
\* edges as they are.
C3_NoSelfLoop ==
    /\ [](\A i \in 1..Len(edges) :
            /\ edges[i].source # edges[i].target
            /\ nodes[edges[i].source].id # nodes[edges[i].target].id)
    /\ [][(/\ last'.op = "on_left_click"
           /\ arrow_source # 0
           /\ get_node_at(last'.x, last'.y) = arrow_source) => edges' = edges]_vars

\* A press on the connection source itself, in connection mode, has just
\* been handled: the mode is still on, and the press hit the source.
C3_Witness ==
    /\ last.op = "on_left_click" /\ arrow_source # 0
    /\ get_node_at(last.x, last.y) = arrow_source
    /\ Len(nodes) = 2

\* C4: the line of every edge runs from the centre of its source to the
\* centre of its target, where these nodes are now (50 right of the node's
\* corner, and 25 below it for a rectangle, 30 for a diamond).
C4_EdgeEndsAtCenters ==
    \A i \in 1..Len(edges) :
        LET s == nodes[edges[i].source]
            t == nodes[edges[i].target]
        IN  edges[i].line =
                << s.x + 50, s.y + (IF s.shape = "rectangle" THEN 25 ELSE 30),
                   t.x + 50, t.y + (IF t.shape = "rectangle" THEN 25 ELSE 30) >>

\* A pointer move has just dragged the target of an edge to a place where no
\* node is created (x = -100).
C4_Witness ==
    /\ last.op = "on_drag" /\ dragging_node # 0
    /\ nodes[dragging_node].x = -100
    /\ \E i \in 1..Len(edges) : edges[i].target = dragging_node

-----------------------------------------------------------------------------
(* The export (SpecExport)                                                 *)

C8_NodeLinesThenEdgeLines ==
    LET L == mermaid_lines
        n == Len(nodes)
        e == Len(edges)
    IN  /\ Len(L) = 2 + n + e + Len(color_classes) + Len(groups) + 1
        /\ \A i \in 1..n :
              L[2 + i] = "    " \o nodes[i].id
                            \o (IF nodes[i].shape = "rectangle" THEN "[" ELSE "{")
                            \o nodes[i].text
                            \o (IF nodes[i].shape = "rectangle" THEN "];" ELSE "};")
        /\ \A j \in 1..e :
              /\ edges[j].label = ""
              /\ L[2 + n + j] = "    " \o nodes[edges[j].source].id \o " --> "
                                   \o nodes[edges[j].target].id \o ";"
        /\ ( /\ n = 2 /\ e = 1
             /\ nodes[1].shape = "rectangle" /\ nodes[2].shape = "diamond"
             /\ nodes[1].text = "Node" /\ nodes[2].text = "Node"
             /\ edges[1].source = 1 /\ edges[1].target = 2 )
           => /\ L[3] = "    A[Node];"
              /\ L[4] = "    B{Node};"
              /\ L[5] = "    A --> B;"
        /\ last.op \in {"generate_mermaid", "copy_mermaid_to_clipboard"} =>
              last.out = join("\n", L)

\* The export has just run on a rectangle A and a diamond B with the edge
\* from A to B, and returned this text.
C8_Witness ==
    /\ last.op = "generate_mermaid"
    /\ Len(nodes) = 2 /\ nodes[1].shape = "rectangle" /\ nodes[2].shape = "diamond"
    /\ Len(edges) = 1 /\ edges[1].source = 1 /\ edges[1].target = 2
    /\ last.out = FENCE \o "mermaid\ngraph TD;\n    A[Node];\n    B{Node};\n    A --> B;\n"
                    \o "    classDef color1 fill:#ffffff,stroke:#000,stroke-width:2px;\n"
                    \o "    class A,B color1;\n" \o FENCE

-----------------------------------------------------------------------------
(* The colour classes of the export (SpecColor)                            *)

\* A fill colour in lower case, written out for the colours of ColorInputs
\* and the white of a new node.
ClaimKey(fill) ==
    CASE fill = WHITE  -> <<"#","f","f","f","f","f","f">>
      [] fill = RED    -> <<"#","f","f","0","0","0","0">>
      [] fill = YELLOW -> <<"#","f","f","f","f","0","0">>
      [] fill = DODGER -> <<"#","1","e","9","0","f","f">>
      [] fill = dodger -> <<"#","1","e","9","0","f","f">>
      [] fill = CUSTOM -> <<"#","1","2","3","4","5","6">>

\* The fixed name of a predefined colour, "" for any other colour.
ClaimFixedName(key) ==
    CASE key = <<"#","1","e","9","0","f","f">> -> "blue"
      [] key = <<"#","f","f","4","5","0","0">> -> "red"
      [] key = <<"#","3","2","c","d","3","2">> -> "green"
      [] key = <<"#","f","f","f","f","0","0">> -> "yellow"
      [] key = <<"#","f","f","a","5","0","0">> -> "orange"
      [] OTHER -> ""

\* The first node, in insertion order, whose fill is key in lower case.
ClaimFirstNode(key) ==
    CHOOSE n \in 1..Len(nodes) :
        /\ ClaimKey(nodes[n].fill) = key
        /\ \A m \in 1..(n - 1) : ClaimKey(nodes[m].fill) # key

\* The colour-class table has one entry for each distinct fill colour
\* (ignoring case), in the order the colours first appear among the nodes.
ClaimTableOfDistinctColors ==
    /\ {color_classes[i].key : i \in 1..Len(color_classes)}
         = {ClaimKey(nodes[n].fill) : n \in 1..Len(nodes)}
    /\ \A i, j \in 1..Len(color_classes) :
          i < j => /\ color_classes[i].key # color_classes[j].key
                   /\ ClaimFirstNode(color_classes[i].key)
                        < ClaimFirstNode(color_classes[j].key)

\* The fills of the nodes, in insertion order.
ClaimFills == [n \in 1..Len(nodes) |-> nodes[n].fill]

\* The names of the colour-class table, in its order.
ClaimNames == [i \in 1..Len(color_classes) |-> color_classes[i].val]

\* C6 as stated: each predefined colour gets its fixed name and the k-th
\* distinct colour that is not predefined gets the name color<k>, counting
\* the colours that are not predefined alone; two nodes filled #1E90FF and one
\* filled #123456, in any order, give the two classes blue and color1.
C6_ClassNames_AsStated ==
    /\ ClaimTableOfDistinctColors
    /\ \A i \in 1..Len(color_classes) :
          color_classes[i].val =
             IF ClaimFixedName(color_classes[i].key) # ""
             THEN ClaimFixedName(color_classes[i].key)
             ELSE "color" \o str(Cardinality({j \in 1..i :
                                     ClaimFixedName(color_classes[j].key) = ""}))
    /\ ClaimFills \in {<<DODGER, DODGER, CUSTOM>>, <<DODGER, CUSTOM, DODGER>>,
                       <<CUSTOM, DODGER, DODGER>>}
         => {ClaimNames[i] : i \in 1..Len(ClaimNames)} = {"blue", "color1"}

\* C6 as amended: each predefined colour gets its fixed name, and a colour
\* that is not predefined gets the name color<k> where k is its place among
\* all the distinct fill colours in node order, the predefined ones counted
\* too; two nodes filled #1E90FF followed by one filled #123456 give the two
\* classes blue and color2 (color1 and blue when the #123456 node is first).
C6_ClassNames ==
    /\ ClaimTableOfDistinctColors
    /\ \A i \in 1..Len(color_classes) :
          color_classes[i].val =
             IF ClaimFixedName(color_classes[i].key) # ""
             THEN ClaimFixedName(color_classes[i].key)
             ELSE "color" \o str(i)
    /\ ClaimFills = <<DODGER, DODGER, CUSTOM>> => ClaimNames = <<"blue", "color2">>
    /\ ClaimFills = <<DODGER, CUSTOM, DODGER>> => ClaimNames = <<"blue", "color2">>
    /\ ClaimFills = <<CUSTOM, DODGER, DODGER>> => ClaimNames = <<"color1", "blue">>

\* The export has just run on two nodes filled #1E90FF and a third filled
\* #123456, and its text names the classes blue and color2.
C6_Witness ==
    /\ last.op = "generate_mermaid"
    /\ ClaimFills = <<DODGER, DODGER, CUSTOM>>
    /\ last.out = FENCE \o "mermaid\ngraph TD;\n    A[Node];\n    B[Node];\n    C[Node];\n"
                    \o "    classDef blue fill:#1e90ff,stroke:#000,stroke-width:2px;\n"
                    \o "    classDef color2 fill:#123456,stroke:#000,stroke-width:2px;\n"
                    \o "    class A,B blue;\n    class C color2;\n" \o FENCE

\* The place in nodes of the node with this id.
ClaimNodeOf(id) == CHOOSE n \in 1..Len(nodes) : nodes[n].id = id

\* C7: every node id stands in exactly one class line, once; that line is
\* the one of the class of the node's fill colour; two nodes share a line
\* iff their fills are equal ignoring case; the ids of a line are in
\* insertion order; and there is one classDef line for each class line, with
\* distinct names.  The lines of the export after the nodes and edges are
\* these classDef lines and then these class lines.
C7_ClassLinesPartitionNodes ==
    LET G == groups
        T == color_classes
        L == mermaid_lines
        base == 2 + Len(nodes) + Len(edges)
        Places(n) == {pl \in {<<g, k>> : g \in 1..Len(G), k \in 1..Len(nodes)} :
                         /\ pl[2] <= Len(G[pl[1]].val)
                         /\ G[pl[1]].val[pl[2]] = nodes[n].id}
        LineOf(n) == CHOOSE g \in 1..Len(G) : \E k \in 1..Len(G[g].val) :
                         G[g].val[k] = nodes[n].id
    IN  /\ \A n \in 1..Len(nodes) : Cardinality(Places(n)) = 1
        /\ \A n \in 1..Len(nodes) :
              \E i \in 1..Len(T) :
                  /\ T[i].key = ClaimKey(nodes[n].fill)
                  /\ T[i].val = G[LineOf(n)].key
        /\ \A n, m \in 1..Len(nodes) :
              (LineOf(n) = LineOf(m)) <=> (ClaimKey(nodes[n].fill) = ClaimKey(nodes[m].fill))
        /\ \A g \in 1..Len(G) : \A k, l \in 1..Len(G[g].val) :
              k < l => ClaimNodeOf(G[g].val[k]) < ClaimNodeOf(G[g].val[l])
        /\ Len(T) = Len(G)
        /\ \A i, j \in 1..Len(T) : i # j => T[i].val # T[j].val
        /\ {T[i].val : i \in 1..Len(T)} = {G[g].key : g \in 1..Len(G)}
        /\ Len(L) = base + Len(T) + Len(G) + 1
        /\ \A i \in 1..Len(T) :
              L[base + i] = "    classDef " \o T[i].val \o " fill:" \o chars_to_str(T[i].key)
                               \o ",stroke:#000,stroke-width:2px;"
        /\ \A g \in 1..Len(G) :
              L[base + Len(T) + g] = "    class " \o join(",", G[g].val) \o " " \o G[g].key \o ";"

\* The export has just run on three nodes filled #1E90FF, #123456 and
\* #1e90ff: the first and the third share the class line of blue.
C7_Witness ==
    /\ last.op = "generate_mermaid"
    /\ ClaimFills = <<DODGER, CUSTOM, dodger>>
    /\ groups = << [key |-> "blue", val |-> <<"A", "C">>],
                   [key |-> "color2", val |-> <<"B">>] >>
    /\ last.out = FENCE \o "mermaid\ngraph TD;\n    A[Node];\n    B[Node];\n    C[Node];\n"
                    \o "    classDef blue fill:#1e90ff,stroke:#000,stroke-width:2px;\n"
                    \o "    classDef color2 fill:#123456,stroke:#000,stroke-width:2px;\n"
                    \o "    class A,C blue;\n    class B color2;\n" \o FENCE

-----------------------------------------------------------------------------
(* A creation request with an unknown shape (SpecShape)                    *)

\* C9 as stated: a creation request whose shape is neither rectangle nor
\* diamond leaves the diagram as it was: no node is put into nodes, the
\* edges are as before, and no edit session is opened on the new node.
C9_InvalidShapeLeavesModel ==
    [][(last'.op = "create_node_at" /\ last'.arg \notin Shapes)
          => /\ nodes' = nodes
             /\ edges' = edges
             /\ current_edit_node' = current_edit_node
             /\ text_editor' = text_editor]_vars

-----------------------------------------------------------------------------
(* A press on the connection source (Spec)                                 *)

\* C10 as stated: in connection mode with the source S, a press on S makes
\* no edge and ends connection mode: no connection source is pending after it.
C10_PressOnSourceEndsMode_AsStated ==
    [][(/\ last'.op = "on_left_click"
        /\ arrow_source # 0
        /\ get_node_at(last'.x, last'.y) = arrow_source)
          => /\ edges' = edges
             /\ arrow_source' = 0]_vars

\* C10 as amended: in connection mode with the source S, a press on S makes
\* no edge and leaves connection mode on, S still the pending source and
\* still highlighted; and any press in connection mode on another node T,
\* one that follows a press on S included, appends the edge from S to T and
\* ends connection mode.
C10_PressOnSourceKeepsMode ==
    [][(last'.op = "on_left_click" /\ arrow_source # 0)
          => LET hit == get_node_at(last'.x, last'.y)
             IN  /\ hit = arrow_source
                    => /\ edges' = edges
                       /\ arrow_source' = arrow_source
                       /\ nodes' = nodes
                       /\ nodes[arrow_source].outline = "red"
                 /\ (hit # 0 /\ hit # Raised /\ hit # arrow_source)
                    => /\ Len(edges') = Len(edges) + 1
                       /\ SubSeq(edges', 1, Len(edges)) = edges
                       /\ edges'[Len(edges')].source = arrow_source
                       /\ edges'[Len(edges')].target = hit
                       /\ arrow_source' = 0]_vars

\* A press on the connection source, in connection mode, has just been
\* handled before any edge was made: the button is down, the source is
\* still pending and still highlighted.
C10_Witness ==
    /\ last.op = "on_left_click" /\ button_down
    /\ arrow_source # 0
    /\ get_node_at(last.x, last.y) = arrow_source
    /\ nodes[arrow_source].outline = "red"
    /\ edges = <<>>

-----------------------------------------------------------------------------
(* The connection mode (SpecConnect)                                       *)

\* C11: in connection mode with the source S, a press on a node T other
\* than S appends exactly one edge from S to T with an empty label after the
\* edges there were, which stay as they were and in their order; connection
\* mode is off and S is not highlighted afterwards; and the press opens no
\* edit session and starts no drag.
C11_PressOnTargetConnects ==
    [][(/\ last'.op = "on_left_click"
        /\ arrow_source # 0
        /\ get_node_at(last'.x, last'.y) \notin {0, Raised, arrow_source})
          => LET S == arrow_source
                 T == get_node_at(last'.x, last'.y)
             IN  /\ Len(edges') = Len(edges) + 1
                 /\ \A i \in 1..Len(edges) : edges'[i] = edges[i]
                 /\ edges'[Len(edges')].source = S
                 /\ edges'[Len(edges')].target = T
                 /\ edges'[Len(edges')].label = ""
                 /\ arrow_source' = 0
                 /\ nodes'[S].outline = "black"
                 /\ current_edit_node' = current_edit_node
                 /\ text_editor' = text_editor
                 /\ palette_panel' = palette_panel
                 /\ dragging_node' = dragging_node
                 /\ dragging_node' = 0]_vars

\* A press in connection mode has just made the third edge, from the second
\* node to the first, after two edges the other way round.
C11_Witness ==
    /\ last.op = "on_left_click" /\ button_down /\ arrow_source = 0
    /\ Len(edges) = 3
    /\ edges[1].source = 1 /\ edges[1].target = 2
    /\ edges[2].source = 1 /\ edges[2].target = 2
    /\ edges[3].source = 2 /\ edges[3].target = 1
    /\ get_node_at(last.x, last.y) = 1
    /\ current_edit_node = 0 /\ dragging_node = 0

-----------------------------------------------------------------------------
(* What ends the connection mode (SpecMode)                                *)

\* A step that completes a connection: a press, in connection mode, on a
\* node that is not the source.
ClaimCompletes ==
    /\ last'.op = "on_left_click"
    /\ arrow_source # 0
    /\ get_node_at(last'.x, last'.y) \notin {0, Raised, arrow_source}

\* C12 as stated: a step taken in connection mode leaves the mode on with
\* the same source unless it completes a connection or is a creation
\* request.
C12_ModeEndsOnlyByConnectOrCreate_AsStated ==
    [][arrow_source # 0
          => \/ arrow_source' = arrow_source
             \/ ClaimCompletes
             \/ last'.op = "create_node_at"]_vars

\* C12 as amended: a step taken in connection mode leaves the mode on with
\* the same source unless it completes a connection or is a creation request,
\* which both end the mode, or is a double click on a node, which leaves the
\* mode on with that node for its source.  A press on the empty canvas, a
\* pointer move, a pointer up, a commit of the edit session, a choice in the
\* palette and an export leave the mode and its source as they are.
C12_ModeEndsOnlyByConnectOrCreate ==
    [][arrow_source # 0
          => /\ \/ arrow_source' = arrow_source
                \/ ClaimCompletes /\ arrow_source' = 0
                \/ last'.op = "create_node_at" /\ arrow_source' = 0
                \/ /\ last'.op = "on_double_click"
                   /\ arrow_source' = get_node_at(last'.x, last'.y)
                   /\ arrow_source' # 0
             /\ ClaimCompletes => arrow_source' = 0
             /\ last'.op = "create_node_at" => arrow_source' = 0
             /\ (last'.op = "on_left_click" /\ get_node_at(last'.x, last'.y) = 0)
                   => arrow_source' = arrow_source
             /\ last'.op \in {"on_drag", "on_release", "finish_editing", "change_color",
                              "generate_mermaid"}
                   => arrow_source' = arrow_source]_vars

\* A press on the empty canvas has just been handled in connection mode,
\* which is still on.
C12_Witness ==
    /\ last.op = "on_left_click" /\ button_down
    /\ get_node_at(last.x, last.y) = 0
    /\ arrow_source # 0
    /\ nodes[arrow_source].outline = "red"

-----------------------------------------------------------------------------
(* Double click and the presses in connection mode (Spec)                  *)

\* C13: a double click on a node closes the edit session if one is open
\* (no current node, no Entry, no palette afterwards), makes that node the
\* connection source and highlights it; and a press or a double click
\* handled in connection mode leaves no edit session open and no drag
\* started.
C13_DoubleClickEntersMode ==
    [][/\ (last'.op = "on_double_click" /\ get_node_at(last'.x, last'.y) \notin {0, Raised})
            => /\ current_edit_node' = 0
               /\ text_editor' = NoEditor
               /\ palette_panel' = FALSE
               /\ arrow_source' = get_node_at(last'.x, last'.y)
               /\ nodes'[arrow_source'].outline = "red"
       /\ (arrow_source # 0 /\ last'.op \in {"on_left_click", "on_double_click"})
            => /\ current_edit_node' = 0
               /\ text_editor' = NoEditor
               /\ palette_panel' = FALSE
               /\ dragging_node' = 0]_vars

\* A double click on the second node has just been handled: it is the
\* highlighted connection source and no edit session is open.
C13_Witness ==
    /\ last.op = "on_double_click" /\ button_down
    /\ arrow_source = 2 /\ get_node_at(last.x, last.y) = 2
    /\ nodes[2].outline = "red"
    /\ current_edit_node = 0 /\ ~text_editor.exists /\ ~palette_panel

-----------------------------------------------------------------------------
(* Presses outside connection mode (SpecDrag)                              *)

\* C14: outside connection mode, a press at p on a node n leaves an edit
\* session open on n and on no other node (the one Entry there is belongs to
\* n, the palette is shown) and a drag of n whose offset is p minus the
\* position of n; a press on the empty canvas leaves no edit session open
\* and no drag started.
C14_PressEditsAndDrags ==
    [][(last'.op = "on_left_click" /\ arrow_source = 0)
          => LET n == get_node_at(last'.x, last'.y)
             IN  /\ n \notin {0, Raised}
                    => /\ current_edit_node' = n
                       /\ text_editor'.exists
                       /\ text_editor'.node = n
                       /\ text_editor'.placed
                       /\ palette_panel'
                       /\ dragging_node' = n
                       /\ drag_offset_x' = last'.x - nodes[n].x
                       /\ drag_offset_y' = last'.y - nodes[n].y
                       /\ arrow_source' = 0
                 /\ n = 0
                    => /\ current_edit_node' = 0
                       /\ text_editor' = NoEditor
                       /\ palette_panel' = FALSE
                       /\ dragging_node' = 0
                       /\ nodes' = nodes]_vars

\* A press at (100,60) has just been handled on the second node, a diamond
\* at (0,0), while the first node is a rectangle: the session and the drag
\* are on the second node, with the offset (100,60).
C14_Witness ==
    /\ last.op = "on_left_click" /\ last.x = 100 /\ last.y = 60
    /\ Len(nodes) = 2 /\ nodes[1].shape = "rectangle" /\ nodes[2].shape = "diamond"
    /\ nodes[2].x = 0 /\ nodes[2].y = 0
    /\ current_edit_node = 2 /\ text_editor.node = 2
    /\ dragging_node = 2 /\ drag_offset_x = 100 /\ drag_offset_y = 60

\* C15: while a drag is on, every step but the pointer up leaves the drag
\* offset and the dragged node as they are; a pointer move at p with a drag
\* of n on puts n at p minus the offset and leaves every other node where
\* it was; a pointer move with no drag on moves no node; and the pointer up
\* ends the drag.
C15_DragFollowsPointer ==
    [][/\ (dragging_node # 0 /\ last'.op # "on_release")
            => /\ drag_offset_x' = drag_offset_x
               /\ drag_offset_y' = drag_offset_y
               /\ dragging_node' = dragging_node
       /\ (last'.op = "on_drag" /\ dragging_node # 0)
            => /\ nodes'[dragging_node].x = last'.x - drag_offset_x
               /\ nodes'[dragging_node].y = last'.y - drag_offset_y
               /\ Len(nodes') = Len(nodes)
               /\ \A m \in 1..Len(nodes) :
                     m # dragging_node => /\ nodes'[m].x = nodes[m].x
                                          /\ nodes'[m].y = nodes[m].y
       /\ (last'.op = "on_drag" /\ dragging_node = 0)
            => /\ Len(nodes') = Len(nodes)
               /\ \A m \in 1..Len(nodes) : /\ nodes'[m].x = nodes[m].x
                                           /\ nodes'[m].y = nodes[m].y
       /\ last'.op = "on_release" => dragging_node' = 0]_vars

\* A pointer move to (0,0) has just dragged the first node, pressed at its
\* corner (100,60), to (-100,-60), while the second node stayed at (0,0).
C15_Witness ==
    /\ last.op = "on_drag" /\ last.x = 0 /\ last.y = 0
    /\ dragging_node = 1 /\ drag_offset_x = 100 /\ drag_offset_y = 60
    /\ Len(nodes) = 2
    /\ nodes[1].x = -100 /\ nodes[1].y = -60
    /\ nodes[2].x = 0 /\ nodes[2].y = 0

-----------------------------------------------------------------------------
(* Hit testing (SpecDrag)                                                  *)

\* The points at which C16 compares the hit test: on, just inside and just
\* outside the lines x = 0, x = 100, y = 0, y = 50 and y = 60.
ClaimPointXs == {-1, 0, 100, 101}
ClaimPointYs == {-1, 0, 50, 51, 60, 61}

\* The point lies in the box of node n, its edges included: 100 wide, and
\* 50 high for a rectangle, 60 for a diamond.
ClaimInBox(n, x, y) ==
    /\ nodes[n].x <= x /\ x <= nodes[n].x + 100
    /\ nodes[n].y <= y
    /\ y <= nodes[n].y + (IF nodes[n].shape = "rectangle" THEN 50 ELSE 60)

\* The first node in insertion order whose box holds the point, 0 for none.
ClaimHit(x, y) ==
    IF \E n \in 1..Len(nodes) : ClaimInBox(n, x, y)
    THEN CHOOSE n \in 1..Len(nodes) :
             /\ ClaimInBox(n, x, y)
             /\ \A m \in 1..(n - 1) : ~ClaimInBox(m, x, y)
    ELSE 0

\* C16: the hit test at a point gives the first node in insertion order
\* whose box, edges included, holds the point, and no node when none does;
\* and the node that a press edits and drags, that a double click makes the
\* connection source, and that a press in connection mode connects to, is
\* that first node.
C16_HitTestFirstInOrder ==
    /\ [](\A x \in ClaimPointXs, y \in ClaimPointYs : get_node_at(x, y) = ClaimHit(x, y))
    /\ [][LET n == ClaimHit(last'.x, last'.y)
          IN  /\ (last'.op = "on_left_click" /\ arrow_source = 0 /\ n # 0)
                    => current_edit_node' = n /\ dragging_node' = n
              /\ (last'.op = "on_double_click" /\ n # 0) => arrow_source' = n
              /\ (last'.op = "on_left_click" /\ arrow_source # 0 /\ n # 0
                     /\ n # arrow_source)
                    => edges'[Len(edges')].target = n]_vars

\* A press at (100,60) has just been handled where two diamonds at (0,0)
\* overlap: the first of them is edited and dragged.
C16_Witness ==
    /\ last.op = "on_left_click" /\ last.x = 100 /\ last.y = 60
    /\ Len(nodes) = 2
    /\ ClaimInBox(1, 100, 60) /\ ClaimInBox(2, 100, 60)
    /\ nodes[1].shape = "diamond" /\ nodes[2].shape = "diamond"
    /\ current_edit_node = 1 /\ dragging_node = 1

-----------------------------------------------------------------------------
(* The edit session (SpecEdit)                                             *)

\* C17 as stated: a creation request for a rectangle or a diamond appends
\* one node, with the text Node and a white fill, after the nodes there
\* were; afterwards exactly one edit session is open, on the new node; and a
\* node whose session was open until then has the text last entered in that
\* session, the text of its Entry.
C17_CreateOpensSession ==
    [][(last'.op = "create_node_at" /\ last'.arg \in Shapes)
          => /\ Len(nodes') = Len(nodes) + 1
             /\ nodes'[Len(nodes')].text = "Node"
             /\ nodes'[Len(nodes')].fill = WHITE
             /\ nodes'[Len(nodes')].shape = last'.arg
             /\ current_edit_node' = Len(nodes')
             /\ text_editor'.exists
             /\ text_editor'.node = Len(nodes')
             /\ (current_edit_node # 0 /\ text_editor.exists)
                   => nodes'[current_edit_node].text = text_editor.content]_vars

\* C18: the <KeyRelease> of the Entry, while an edit session is open, sets
\* the text of the node recorded as currently edited to the Entry's text
\* right away, and leaves every other node as it is; and in every state the
\* Entry, when there is one, is bound to the node recorded as currently
\* edited.
C18_KeyReleaseUpdatesEditedNode ==
    /\ [](text_editor.exists
            => /\ current_edit_node # 0
               /\ text_editor.node = current_edit_node)
    /\ [][last'.op = "on_key_release"
            => /\ current_edit_node # 0
               /\ nodes'[current_edit_node].text = text_editor.content
               /\ Len(nodes') = Len(nodes)
               /\ \A m \in 1..Len(nodes) : m # current_edit_node => nodes'[m] = nodes[m]
               /\ text_editor' = text_editor
               /\ current_edit_node' = current_edit_node]_vars

\* The session has moved from the first node, which was given the text X,
\* to the second, and a <KeyRelease> has just given the second the text Y.
C18_Witness ==
    /\ last.op = "on_key_release"
    /\ Len(nodes) = 2
    /\ current_edit_node = 2 /\ text_editor.node = 2 /\ text_editor.content = "Y"
    /\ nodes[2].text = "Y" /\ nodes[1].text = "X"

-----------------------------------------------------------------------------
(* The edit session and the connection mode (Spec)                         *)

\* C19: in every state, the node currently edited and the connection source
\* are not both set, and there is an Entry exactly when a node is recorded
\* as currently edited.
C19_SessionExcludesMode ==
    /\ ~(current_edit_node # 0 /\ arrow_source # 0)
    /\ text_editor.exists <=> current_edit_node # 0

\* A creation request has just opened a session on the second node: there
\* is an Entry, bound to the node recorded as currently edited, and no
\* connection source is set.
C19_Witness ==
    /\ last.op = "create_node_at"
    /\ Len(nodes) = 2 /\ current_edit_node = 2 /\ text_editor.exists
    /\ text_editor.node = 2
    /\ arrow_source = 0

-----------------------------------------------------------------------------
(* The highlight (SpecConnect)                                             *)

\* C20 as stated: in every state the highlighted nodes are the connection
\* source alone when connection mode is on, and none when it is off; a
\* double click on a node B while A is the source leaves A not highlighted.
C20_HighlightIsSource ==
    {n \in 1..Len(nodes) : nodes[n].outline = "red"}
        = IF arrow_source # 0 THEN {arrow_source} ELSE {}

====
